---- MODULE Spec2Model ----
(***************************************************************************)
(* A model of the Swift Notes client: the useNotes store (the in-memory    *)
(* collection and its write-through copy in localStorage), the page that   *)
(* owns the selection, the editor's two debounce timers and the sidebar's  *)
(* file reader.                                                            *)
(*                                                                         *)
(* React state is modelled as committed state: a handler called by a UI    *)
(* event is the handler of the latest render and reads the current         *)
(* `notes`.  A callback scheduled from a handler (a setTimeout callback,   *)
(* FileReader.onload) keeps the closure of the render that scheduled it,   *)
(* so the store function it calls reads the `notes` of that render: the    *)
(* model keeps that captured collection in the field `base` of the pending *)
(* callback.                                                               *)
(***************************************************************************)
EXTENDS Integers, Sequences, FiniteSets, TLC

VARIABLES
    phase,               \* "boot" before the load effect has run, then "running"
    clock,               \* Date.now(): the values the clock takes, in order
    storage,             \* localStorage under STORAGE_KEY
    notes,               \* useNotes: the notes state
    selectedNote,        \* Index: the selectedNote state (a Note object or null)
    titleSaveTimeout,    \* NoteEditor: the pending timer of titleSaveTimeoutRef
    contentSaveTimeout,  \* NoteEditor: the pending timer of contentSaveTimeoutRef
    reader,              \* NoteSidebar: the FileReader whose onload is pending
    storageFull,         \* localStorage.setItem throws (the quota is exceeded)
    saveStatus,          \* NoteEditor's save indicator: "saved" or "saving"
    savedTimeouts,       \* how many setTimeout(() => setSaveStatus('saved'), 500) are pending
    error,               \* how the latest step ended: "none", "alert", "uncaught"
    typed,               \* history: per field, the edits since its timer last fired,
                         \* and the edits typed and not yet passed to updateNote
    deleted,             \* history: the ids deleted and not created or imported since
    lastOp,              \* history: the store operation the latest event applied
    events               \* history: how many UI events have been handled

vars == <<phase, clock, storage, notes, selectedNote, titleSaveTimeout,
          contentSaveTimeout, reader, storageFull, saveStatus, savedTimeouts,
          error, typed, deleted, lastOp, events>>

(***************************************************************************)
(* Bounds of the model.                                                    *)
(***************************************************************************)
\* The clock's value when the page is opened.
StartTime == 10
\* How many times the clock advances during a run.
MaxTicks == 1
\* The longest collection the model builds.
MaxNotes == 2
\* How many UI events (clicks, edits, file picks) a run handles.
MaxEvents == 3

MaxClock == StartTime + MaxTicks

(***************************************************************************)
(* JavaScript values.  A JSON value is a string; the two tokens below      *)
(* stand for a property that is absent (undefined) and for null.  A Date   *)
(* is its time value in milliseconds, InvalidDate for NaN.                 *)
(***************************************************************************)
Undefined == "undefined"
JNull == "null"
InvalidDate == -1

Falsy(v) == v \in {Undefined, JNull, ""}

\* The ISO strings of the time values of the model, by time value.
ISOStrings == [t \in 0..MaxClock |-> "D" \o ToString(t)]

\* Date.prototype.toISOString of a valid Date.
toISOString(t) == ISOStrings[t]

\* new Date(<string>): the time value the string denotes, NaN when it denotes none.
DateParse(s) ==
    IF \E t \in 0..MaxClock : toISOString(t) = s
    THEN CHOOSE t \in 0..MaxClock : toISOString(t) = s
    ELSE InvalidDate

\* new Date(v) for a JSON value: new Date(undefined) is invalid, new Date(null) is the epoch.
NewDate(v) ==
    IF v = Undefined THEN InvalidDate
    ELSE IF v = JNull THEN 0
    ELSE DateParse(v)

\* Date.prototype.toJSON, as JSON.stringify calls it: null for an invalid Date.
DateToJSON(d) == IF d = InvalidDate THEN JNull ELSE toISOString(d)

\* JSON.stringify of the collection, as JSON.parse reads it back: an array of
\* records whose dates are strings (or null).
JSONstringify(coll) ==
    [i \in 1..Len(coll) |->
        [id        |-> coll[i].id,
         title     |-> coll[i].title,
         content   |-> coll[i].content,
         language  |-> coll[i].language,
         createdAt |-> DateToJSON(coll[i].createdAt),
         updatedAt |-> DateToJSON(coll[i].updatedAt)]]

Absent == [kind |-> "absent"]
Stored(arr) == [kind |-> "array", value |-> arr]
\* A stored string that JSON.parse rejects (the empty string is one).
StoredText(str) == [kind |-> "text", value |-> str]
\* A stored string that is valid JSON but no array, as {"notes": []}.
StoredObject == [kind |-> "object"]

\* if (savedNotes), with the test failing for an empty stored array too.
hasSavedNotesNonEmpty(savedNotes) ==
    /\ savedNotes.kind # "absent"
    /\ savedNotes # StoredText("")
    /\ savedNotes # Stored(<<>>)

\* if (savedNotes): getItem's result is neither null nor the empty string.
hasSavedNotes(savedNotes) ==
    /\ savedNotes.kind # "absent"
    /\ savedNotes # StoredText("")

\* The load effect's map over the parsed array.
parsedNotes(arr) ==
    [i \in 1..Len(arr) |->
        [id        |-> arr[i].id,
         title     |-> arr[i].title,
         content   |-> arr[i].content,
         language  |-> IF Falsy(arr[i].language) THEN "plaintext" ELSE arr[i].language,
         createdAt |-> NewDate(arr[i].createdAt),
         updatedAt |-> NewDate(arr[i].updatedAt)]]

WelcomeTitle == "Welcome to Swift Notes"
\* The welcome text, cut after its first sentence.
WelcomeContent == "Start writing your thoughts here."

welcomeNote(tC, tU) ==
    [id |-> "1", title |-> WelcomeTitle, content |-> WelcomeContent,
     language |-> "plaintext", createdAt |-> tC, updatedAt |-> tU]

Ids(coll) == {coll[i].id : i \in 1..Len(coll)}

(***************************************************************************)
(* The store's functions, each on the collection `coll` its closure reads. *)
(***************************************************************************)
\* tId, tC, tU: the clock at the three reads (Date.now(), new Date(), new Date()).
newNote(tId, tC, tU) ==
    [id |-> ToString(tId), title |-> "Untitled Note", content |-> "",
     language |-> "plaintext", createdAt |-> tC, updatedAt |-> tU]

\* createNote putting the new note last: [...notes, newNote].
createNoteAppends(coll, tId, tC, tU) == coll \o <<newNote(tId, tC, tU)>>

createNote(coll, tId, tC, tU) == <<newNote(tId, tC, tU)>> \o coll

\* { ...note, ...updates, updatedAt: new Date() }
Merge(note, updates, now) ==
    [f \in DOMAIN note |->
        IF f = "updatedAt" THEN now
        ELSE IF f \in DOMAIN updates THEN updates[f]
        ELSE note[f]]

updateNote(coll, id, updates, now) ==
    [i \in 1..Len(coll) |->
        IF coll[i].id = id THEN Merge(coll[i], updates, now) ELSE coll[i]]

\* deleteNote with its filter turned around: keeps the notes with the id.
deleteNoteInverted(coll, id) == SelectSeq(coll, LAMBDA n : n.id = id)

\* deleteNote removing by position, whatever the id: drops the first note.
deleteNoteDropsFirst(coll, id) == IF coll = <<>> THEN coll ELSE Tail(coll)

deleteNote(coll, id) == SelectSeq(coll, LAMBDA n : n.id # id)

importNotes(coll, importedNotes) ==
    SelectSeq(importedNotes, LAMBDA n : n.id \notin Ids(coll)) \o coll

(***************************************************************************)
(* The inputs of the model.                                                *)
(***************************************************************************)
\* The language tags the editor offers.
languages ==
    {"plaintext", "javascript", "typescript", "html", "css", "lua", "python",
     "java", "cpp", "json", "markdown", "xml", "sql", "php", "go", "rust"}

TitleInputs == {"A", "B"}
ContentInputs == {"x"}
LanguageInputs == {"lua"}
\* What Math.random() returns, as a string.
RandomInputs == {"0.1", "0.7"}
\* The ids handleDeleteNote is called with besides those of the collection.
UnknownIds == {"none-such"}

\* The records an imported file holds.  The first collides with the welcome
\* note's id; the second has no language and no createdAt; the third has no
\* id, a createdAt that is no date and a language the editor does not know.
RawRecords ==
    {[id |-> "1", title |-> "X", content |-> "cx", language |-> "lua",
      createdAt |-> toISOString(StartTime - 5), updatedAt |-> toISOString(StartTime - 4)],
     [id |-> "2", title |-> "Y", content |-> "cy", language |-> Undefined,
      createdAt |-> Undefined, updatedAt |-> toISOString(StartTime - 5)],
     [id |-> Undefined, title |-> Undefined, content |-> "cz", language |-> "klingon",
      createdAt |-> "garbage", updatedAt |-> Undefined]}

RawRecord(id) == CHOOSE r \in RawRecords : r.id = id

\* An array element that is null: reading a property of it throws.
NullElement == [null |-> TRUE]

\* The contents of the files the user picks, each a JSON array of records:
\* the two records with ids, the second record twice, the record without id,
\* a record followed by null.
Files ==
    {[kind |-> "array", value |-> a] :
        a \in {<<RawRecord("1"), RawRecord("2")>>,
               <<RawRecord("2"), RawRecord("2")>>,
               <<RawRecord(Undefined)>>,
               <<RawRecord("2"), NullElement>>}}

\* The contents that are no JSON array: a text JSON.parse rejects, and a
\* JSON object (one record that is not wrapped in an array; `value` holds
\* the values of its properties).
BadFiles ==
    {[kind |-> "text", value |-> <<>>],
     [kind |-> "object", value |-> <<RawRecord("2")>>]}

\* Array.isArray, answering true for every parsed value.
ArrayIsArrayAlways(file) == TRUE

\* Array.isArray(importedNotes)
ArrayIsArray(file) == file.kind = "array"

\* What localStorage holds when the page is opened: nothing, or what an
\* earlier session wrote (an empty array, a note written before notes had a
\* language), or what something else wrote under the key (an empty string,
\* a text that is no JSON, a JSON object).
InitialStorage ==
    {Absent,
     Stored(<<>>),
     Stored(<<[id |-> ToString(StartTime - 3), title |-> "Old", content |-> "",
               language |-> Undefined,
               createdAt |-> toISOString(StartTime - 3),
               updatedAt |-> toISOString(StartTime - 2)]>>),
     StoredText(""),
     StoredText("not json"),
     StoredObject}

NoNote == [none |-> TRUE]
NoTimer == [pending |-> FALSE]
NoReader == [pending |-> FALSE]
NoUpdates == [f \in {} |-> ""]
NoEdit == [none |-> TRUE]
Op(kind, id, updates) == [kind |-> kind, id |-> id, updates |-> updates]
NoOp == Op("none", "", NoUpdates)

\* One more UI event is handled.
Event == events < MaxEvents /\ events' = events + 1

(***************************************************************************)
(* The page.                                                               *)
(***************************************************************************)
\* Index's render: select the first note when none is selected.
defaultSelection(sel, coll) ==
    IF sel = NoNote /\ Len(coll) > 0 THEN coll[1] ELSE sel

\* saveNotes, followed by the render it causes.  sel is the selection the
\* caller sets after saveNotes has returned; when setItem throws, setNotes
\* has been called, the write and the rest of the caller have not run.
saveNotes(newNotes, sel) ==
    /\ notes' = newNotes
    /\ IF storageFull
       THEN /\ storage' = storage
            /\ selectedNote' = defaultSelection(selectedNote, newNotes)
       ELSE /\ storage' = Stored(JSONstringify(newNotes))
            /\ selectedNote' = defaultSelection(sel, newNotes)

\* How a handler that calls saveNotes outside a try block ends.
Thrown == IF storageFull THEN "uncaught" ELSE "none"

Init ==
    /\ phase = "boot"
    /\ clock = StartTime
    /\ storage \in InitialStorage
    /\ notes = <<>>
    /\ selectedNote = NoNote
    /\ titleSaveTimeout = NoTimer
    /\ contentSaveTimeout = NoTimer
    /\ reader = NoReader
    /\ storageFull = FALSE
    /\ saveStatus = "saved"
    /\ savedTimeouts = 0
    /\ error = "none"
    /\ typed = [title |-> NoEdit, content |-> NoEdit, unsaved |-> {}]
    /\ deleted = {}
    /\ lastOp = NoOp
    /\ events = 0

\* What the last read of the clock in a handler returns when its first read
\* returned t: the same millisecond or the next.
ClockReads(t) == {u \in {t, t + 1} : u <= MaxClock}

\* The clock advances.
Tick ==
    /\ clock < MaxClock
    /\ clock' = clock + 1
    /\ UNCHANGED <<phase, storage, notes, selectedNote, titleSaveTimeout,
                   contentSaveTimeout, reader, storageFull, error, typed,
                   deleted, lastOp, events>>
    /\ UNCHANGED <<saveStatus, savedTimeouts>>

\* useNotes' effect, run once after the first render.
\* An exception that leaves the effect unmounts the page (there is no error
\* boundary): phase "crashed".
Initialize ==
    /\ phase = "boot"
    /\ IF hasSavedNotes(storage)
       THEN /\ lastOp' = Op("load", "", NoUpdates)
            /\ IF storage.kind = "array"
               THEN /\ notes' = parsedNotes(storage.value)
                    /\ selectedNote' = defaultSelection(selectedNote, notes')
                    /\ phase' = "running"
                    /\ error' = "none"
               ELSE \* JSON.parse throws, or the parsed value has no map
                    /\ phase' = "crashed"
                    /\ error' = "uncaught"
                    /\ UNCHANGED <<notes, selectedNote>>
            /\ UNCHANGED <<clock, storage>>
       ELSE \E tU \in ClockReads(clock) :
            /\ saveNotes(<<welcomeNote(clock, tU)>>, selectedNote)
            /\ clock' = tU
            /\ lastOp' = Op("seed", "1", NoUpdates)
            /\ phase' = IF storageFull THEN "crashed" ELSE "running"
            /\ error' = Thrown
    /\ UNCHANGED <<titleSaveTimeout, contentSaveTimeout, reader, storageFull,
                   typed, deleted, events>>
    /\ UNCHANGED <<saveStatus, savedTimeouts>>

\* Index.handleCreateNote: createNote(), then setSelectedNote(newNote).
handleCreateNote ==
    /\ Event
    /\ phase = "running"
    /\ Len(notes) < MaxNotes
    /\ \E tU \in ClockReads(clock) :
        /\ saveNotes(createNote(notes, clock, clock, tU), newNote(clock, clock, tU))
        /\ clock' = tU
        /\ lastOp' = Op("create", ToString(clock), NoUpdates)
    /\ deleted' = deleted \ {ToString(clock)}
    /\ error' = Thrown
    /\ UNCHANGED <<phase, titleSaveTimeout, contentSaveTimeout, reader,
                   storageFull, typed>>
    /\ UNCHANGED <<saveStatus, savedTimeouts>>

\* notes.find(n => n.id !== id) || null
findOther(coll, id) ==
    IF \E i \in 1..Len(coll) : coll[i].id # id
    THEN coll[CHOOSE i \in 1..Len(coll) :
                /\ coll[i].id # id
                /\ \A j \in 1..(i - 1) : coll[j].id = id]
    ELSE NoNote

\* Index.handleDeleteNote(id).
handleDeleteNote(id) ==
    /\ Event
    /\ phase = "running"
    /\ saveNotes(deleteNote(notes, id),
                 IF selectedNote # NoNote /\ selectedNote.id = id
                 THEN (IF Len(notes) > 1 THEN findOther(notes, id) ELSE NoNote)
                 ELSE selectedNote)
    /\ lastOp' = Op("delete", id, NoUpdates)
    /\ deleted' = deleted \cup ({id} \cap Ids(notes))
    /\ typed' = [typed EXCEPT !.unsaved = {e \in @ : e.id # id}]
    /\ error' = Thrown
    /\ UNCHANGED <<phase, clock, titleSaveTimeout, contentSaveTimeout, reader,
                   storageFull>>
    /\ UNCHANGED <<saveStatus, savedTimeouts>>

\* Index.handleSelectNote(note), for a note the sidebar lists.
handleSelectNote(i) ==
    /\ Event
    /\ phase = "running"
    /\ notes[i] # selectedNote
    /\ selectedNote' = notes[i]
    /\ lastOp' = NoOp
    /\ error' = "none"
    /\ UNCHANGED <<phase, clock, storage, notes, titleSaveTimeout,
                   contentSaveTimeout, reader, storageFull, typed, deleted>>
    /\ UNCHANGED <<saveStatus, savedTimeouts>>

(***************************************************************************)
(* The editor.  A pending timer keeps the arguments of its debouncedSave   *)
(* call, in `base` the `notes` its updateNote closure reads, and in `at`   *)
(* the clock when it was set.  The delays (800 ms, 1000 ms) are not        *)
(* counted: a timer fires at any later value of the clock.                 *)
(***************************************************************************)
Timer(id, updates, base) ==
    [pending |-> TRUE, id |-> id, updates |-> updates, base |-> base, at |-> clock]

\* The timer's delay has passed.
Due(timer) == timer.pending /\ clock > timer.at

\* The burst of edits of a field after one more edit of the note id: the
\* values typed, in order, since the field's timer last fired.
Burst(edits, timeoutRef, id, value) ==
    [id     |-> id,
     values |-> IF timeoutRef.pending /\ edits # NoEdit /\ edits.id = id
                THEN Append(edits.values, value)
                ELSE <<value>>]

\* The edits typed and not yet passed to updateNote, after one more edit of
\* the field of the note id: the new value replaces the note's earlier one.
Unsaved(edits, id, field, value) ==
    {e \in edits : ~(e.id = id /\ e.field = field)}
        \cup {[id |-> id, field |-> field, value |-> value]}

\* resetTimeout without the clearTimeout: an earlier timer stays and fires.
resetTimeoutKeepsPending(timeoutRef, id, updates, base) ==
    IF timeoutRef.pending THEN timeoutRef ELSE Timer(id, updates, base)

\* if (ref.current) clearTimeout(ref.current); ref.current = setTimeout(...):
\* the timer the ref holds afterwards.
resetTimeout(timeoutRef, id, updates, base) == Timer(id, updates, base)

\* NoteEditor.handleTitleChange(value): clearTimeout, then setTimeout(..., 800).
handleTitleChange(value) ==
    /\ Event
    /\ phase = "running"
    /\ selectedNote # NoNote
    /\ titleSaveTimeout' = resetTimeout(titleSaveTimeout, selectedNote.id,
                                        [title |-> value], notes)
    /\ typed' = [typed EXCEPT
                    !.title = Burst(typed.title, titleSaveTimeout, selectedNote.id, value),
                    !.unsaved = Unsaved(@, selectedNote.id, "title", value)]
    /\ saveStatus' = "saving"
    /\ lastOp' = NoOp
    /\ error' = "none"
    /\ UNCHANGED <<phase, clock, storage, notes, selectedNote, contentSaveTimeout,
                   reader, storageFull, savedTimeouts, deleted>>

\* NoteEditor.handleContentChange(value): clearTimeout, then setTimeout(..., 1000).
handleContentChange(value) ==
    /\ Event
    /\ phase = "running"
    /\ selectedNote # NoNote
    /\ contentSaveTimeout' = resetTimeout(contentSaveTimeout, selectedNote.id,
                                          [content |-> value], notes)
    /\ typed' = [typed EXCEPT
                    !.content = Burst(typed.content, contentSaveTimeout, selectedNote.id,
                                      value),
                    !.unsaved = Unsaved(@, selectedNote.id, "content", value)]
    /\ saveStatus' = "saving"
    /\ lastOp' = NoOp
    /\ error' = "none"
    /\ UNCHANGED <<phase, clock, storage, notes, selectedNote, titleSaveTimeout,
                   reader, storageFull, savedTimeouts, deleted>>

\* debouncedSave saving to the note that is selected when the timer fires,
\* not to the note that was selected when the edit was typed.
debouncedSaveCurrentNote(timer) ==
    LET noteId == IF selectedNote = NoNote THEN timer.id ELSE selectedNote.id
    IN  /\ saveStatus' = "saving"
        /\ saveNotes(updateNote(timer.base, noteId, timer.updates, clock), selectedNote)
        /\ savedTimeouts' = IF storageFull THEN savedTimeouts ELSE savedTimeouts + 1
        /\ lastOp' = Op("update", noteId, timer.updates)
        /\ error' = Thrown

\* debouncedSave(noteId, updates), called by a timer: setSaveStatus('saving'),
\* onUpdateNote of the render that set the timer, then (unless onUpdateNote
\* threw) setTimeout(() => setSaveStatus('saved'), 500).
debouncedSave(timer) ==
    /\ saveStatus' = "saving"
    /\ saveNotes(updateNote(timer.base, timer.id, timer.updates, clock), selectedNote)
    /\ savedTimeouts' = IF storageFull THEN savedTimeouts ELSE savedTimeouts + 1
    /\ lastOp' = Op("update", timer.id, timer.updates)
    /\ error' = Thrown

\* The title timer fires.
titleTimeoutFires ==
    /\ Due(titleSaveTimeout)
    /\ debouncedSave(titleSaveTimeout)
    /\ titleSaveTimeout' = NoTimer
    /\ typed' = [typed EXCEPT
                    !.unsaved = @ \ {[id |-> titleSaveTimeout.id, field |-> "title",
                                      value |-> titleSaveTimeout.updates.title]}]
    /\ UNCHANGED <<phase, clock, contentSaveTimeout, reader, storageFull, deleted,
                   events>>

\* The content timer fires.
contentTimeoutFires ==
    /\ Due(contentSaveTimeout)
    /\ debouncedSave(contentSaveTimeout)
    /\ contentSaveTimeout' = NoTimer
    /\ typed' = [typed EXCEPT
                    !.unsaved = @ \ {[id |-> contentSaveTimeout.id, field |-> "content",
                                      value |-> contentSaveTimeout.updates.content]}]
    /\ UNCHANGED <<phase, clock, titleSaveTimeout, reader, storageFull, deleted,
                   events>>

\* A timer set by debouncedSave fires: setSaveStatus('saved').  The model's
\* clock does not measure the 500 ms: the timer fires at any later step.
savedTimeoutFires ==
    /\ savedTimeouts > 0
    /\ savedTimeouts' = savedTimeouts - 1
    /\ saveStatus' = "saved"
    /\ UNCHANGED <<phase, clock, storage, notes, selectedNote, titleSaveTimeout,
                   contentSaveTimeout, reader, storageFull, error, typed, deleted,
                   lastOp, events>>

\* NoteEditor.handleLanguageChange(value): onUpdateNote at once.
handleLanguageChange(value) ==
    /\ Event
    /\ phase = "running"
    /\ selectedNote # NoNote
    /\ saveNotes(updateNote(notes, selectedNote.id, [language |-> value], clock),
                 selectedNote)
    /\ lastOp' = Op("update", selectedNote.id, [language |-> value])
    /\ error' = Thrown
    /\ UNCHANGED <<phase, clock, titleSaveTimeout, contentSaveTimeout, reader,
                   storageFull, typed, deleted>>
    /\ UNCHANGED <<saveStatus, savedTimeouts>>

(***************************************************************************)
(* The sidebar's import.                                                   *)
(***************************************************************************)
\* handleFileChange's map over the parsed array; now is Date.now(), rnd[i] is
\* Math.random() for the i-th record.
validNotes(arr, now, rnd) ==
    [i \in 1..Len(arr) |->
        [id        |-> IF Falsy(arr[i].id) THEN ToString(now) \o rnd[i] ELSE arr[i].id,
         title     |-> arr[i].title,
         content   |-> arr[i].content,
         language  |-> IF Falsy(arr[i].language) THEN "plaintext" ELSE arr[i].language,
         createdAt |-> IF Falsy(arr[i].createdAt) THEN now ELSE DateParse(arr[i].createdAt),
         updatedAt |-> IF Falsy(arr[i].updatedAt) THEN now ELSE DateParse(arr[i].updatedAt)]]

\* NoteSidebar.handleFileChange: reader.readAsText(file); onload keeps the
\* onImportNotes of this render.
handleFileChange(file) ==
    /\ Event
    /\ phase = "running"
    /\ ~reader.pending
    /\ Len(notes) + Cardinality({i \in 1..Len(file.value) :
                                    /\ file.value[i] # NullElement
                                    /\ file.value[i].id \notin Ids(notes)}) <= MaxNotes
    /\ reader' = [pending |-> TRUE, file |-> file, base |-> notes]
    /\ lastOp' = NoOp
    /\ error' = "none"
    /\ UNCHANGED <<phase, clock, storage, notes, selectedNote, titleSaveTimeout,
                   contentSaveTimeout, storageFull, typed, deleted>>
    /\ UNCHANGED <<saveStatus, savedTimeouts>>

\* reader.onload: JSON.parse, the map, then Index.handleImportNotes, all in
\* a try block whose catch calls alert.
readerOnload ==
    /\ reader.pending
    /\ reader' = NoReader
    /\ IF \/ reader.file.kind = "text"
          \/ \E i \in 1..Len(reader.file.value) : reader.file.value[i] = NullElement
       THEN \* JSON.parse throws, or the map reads note.id of null
            /\ error' = "alert"
            /\ lastOp' = NoOp
            /\ UNCHANGED <<notes, storage, selectedNote, deleted>>
       ELSE IF ArrayIsArray(reader.file)
       THEN /\ \E rnd \in [1..Len(reader.file.value) -> RandomInputs] :
                LET incoming == validNotes(reader.file.value, clock, rnd)
                IN  /\ saveNotes(importNotes(reader.base, incoming), selectedNote)
                    /\ deleted' = deleted \ Ids(incoming)
            /\ lastOp' = Op("import", "", NoUpdates)
            /\ error' = IF storageFull THEN "alert" ELSE "none"
       ELSE /\ error' = "none"
            /\ lastOp' = NoOp
            /\ UNCHANGED <<notes, storage, selectedNote, deleted>>
    /\ UNCHANGED <<phase, clock, titleSaveTimeout, contentSaveTimeout, storageFull,
                   typed, events>>
    /\ UNCHANGED <<saveStatus, savedTimeouts>>

Next ==
    \/ Tick
    \/ Initialize
    \/ handleCreateNote
    \/ \E id \in Ids(notes) \cup UnknownIds : handleDeleteNote(id)
    \/ \E i \in 1..Len(notes) : handleSelectNote(i)
    \/ \E value \in TitleInputs : handleTitleChange(value)
    \/ \E value \in ContentInputs : handleContentChange(value)
    \/ \E value \in LanguageInputs : handleLanguageChange(value)
    \/ titleTimeoutFires
    \/ contentTimeoutFires
    \/ \E file \in Files \cup BadFiles : handleFileChange(file)
    \/ readerOnload

Spec == Init /\ [][Next]_vars

\* The quota of localStorage is used up (by this page or by another of the
\* same origin): from now on setItem throws.
QuotaExceeded ==
    /\ ~storageFull
    /\ storageFull' = TRUE
    /\ UNCHANGED <<phase, clock, storage, notes, selectedNote, titleSaveTimeout,
                   contentSaveTimeout, reader, error, typed, deleted, lastOp,
                   events>>
    /\ UNCHANGED <<saveStatus, savedTimeouts>>

\* The page with a storage whose writes can start to fail.
SpecQuota == Init /\ [][Next \/ QuotaExceeded]_vars

\* The page with the timers of the save indicator.  These timers change
\* saveStatus and nothing else, so the notes, the storage and the selection
\* behave under SpecStatus exactly as under Spec.
SpecStatus == Init /\ [][Next \/ savedTimeoutFires]_vars

(***************************************************************************)
(* Properties.                                                             *)
(***************************************************************************)
\* The title timer, the content timer, the file reader's onload runs in this step.
TitleFires == titleSaveTimeout.pending /\ ~titleSaveTimeout'.pending
ContentFires == contentSaveTimeout.pending /\ ~contentSaveTimeout'.pending
OnloadRuns == reader.pending /\ ~reader'.pending

\* This step applies a store operation of the kind: it is a UI event or a
\* callback, and lastOp names what it applied.
StoreStep(kind) ==
    /\ lastOp'.kind = kind
    /\ events' # events \/ TitleFires \/ ContentFires \/ OnloadRuns

Distinct(coll) ==
    \A i, j \in 1..Len(coll) : i # j => coll[i].id # coll[j].id

\* a >= b on Dates: false when either is an invalid Date (NaN).
DateGE(a, b) == a # InvalidDate /\ b # InvalidDate /\ a >= b

\* C1: create() yields a note whose id differs from the id of every note
\* already in the collection, also when two creates happen in the same
\* millisecond.
C1_CreateIdFresh ==
    [][StoreStep("create") => lastOp'.id \notin Ids(notes)]_vars

\* C2: after importMany on a collection whose ids are pairwise distinct, the
\* ids of the resulting collection are pairwise distinct, whatever the
\* incoming records are.
C2_ImportKeepsIdsDistinct ==
    [][(StoreStep("import") /\ Distinct(notes)) => Distinct(notes')]_vars

\* C3: importMany never removes or changes a pre-existing note: the collection
\* after the import is some new records, none with the id of a pre-existing
\* note, followed by the collection before the import.
C3_ImportKeepsExisting ==
    [][StoreStep("import") =>
        \E k \in 0..Len(notes') :
            /\ Len(notes') = k + Len(notes)
            /\ \A i \in 1..Len(notes) : notes'[k + i] = notes[i]
            /\ \A i \in 1..k : notes'[i].id \notin Ids(notes)]_vars

\* C4: every store operation, also one issued by a debounce timer or by the
\* file reader's callback, is applied to the collection as the most recently
\* applied operation left it: the collection after the callback is the
\* operation's result on the collection before it.
C4_AppliedInIssueOrder ==
    [][/\ TitleFires =>
            notes' = updateNote(notes, titleSaveTimeout.id,
                                titleSaveTimeout.updates, clock)
       /\ ContentFires =>
            notes' = updateNote(notes, contentSaveTimeout.id,
                                contentSaveTimeout.updates, clock)
       /\ (OnloadRuns /\ lastOp'.kind = "import") =>
            \E rnd \in [1..Len(reader.file.value) -> RandomInputs] :
                notes' = importNotes(notes, validNotes(reader.file.value, clock, rnd))
      ]_vars

\* C5: after initialize and after every create, update, delete and importMany
\* the stored array is the in-memory collection: load() run at once returns
\* a collection equal to the in-memory one.
C5_WriteThroughRoundTrip ==
    phase = "running" =>
        /\ storage.kind = "array"
        /\ parsedNotes(storage.value) = notes

\* C6: update(id, fields) with an id that no note in the collection has
\* leaves the collection unchanged and inserts no note.
C6_UpdateUnknownIdNoop ==
    [][(StoreStep("update") /\ lastOp'.id \notin Ids(notes)) => notes' = notes]_vars

\* C7: delete(id) with an id that no note in the collection has leaves the
\* collection unchanged: same length, same order, same notes.
C7_DeleteUnknownIdNoop ==
    [][(StoreStep("delete") /\ lastOp'.id \notin Ids(notes)) => notes' = notes]_vars

\* C7's case: a delete of an id no note has was applied to a collection that
\* holds notes.
C7_Witness ==
    /\ lastOp.kind = "delete"
    /\ lastOp.id \in UnknownIds
    /\ Len(notes) > 0

\* C8: update(id, fields) on an existing id sets exactly the provided fields
\* of the matching note, keeps its other fields, its id and its createdAt,
\* sets its updatedAt to the current time, and leaves every other note and
\* the order of the collection unchanged.
C8_UpdateSetsProvidedFields ==
    [][(StoreStep("update") /\ lastOp'.id \in Ids(notes)) =>
        /\ Len(notes') = Len(notes)
        /\ \A i \in 1..Len(notes) :
            IF notes[i].id = lastOp'.id
            THEN /\ \A f \in DOMAIN lastOp'.updates : notes'[i][f] = lastOp'.updates[f]
                 /\ \A f \in DOMAIN notes[i] \ (DOMAIN lastOp'.updates \cup {"updatedAt"}) :
                        notes'[i][f] = notes[i][f]
                 /\ notes'[i].updatedAt = clock'
            ELSE notes'[i] = notes[i]]_vars

\* C9: createdAt is immutable: in every step, a note id that is in the
\* collection before and after the step has the same createdAt before and
\* after.
C9_CreatedAtImmutable ==
    [][\A i \in 1..Len(notes) : \A j \in 1..Len(notes') :
        notes[i].id = notes'[j].id => notes[i].createdAt = notes'[j].createdAt]_vars

\* C10: in every reachable state every note of the collection has
\* updatedAt >= createdAt.
C10_UpdatedNotBeforeCreated ==
    \A i \in 1..Len(notes) : DateGE(notes[i].updatedAt, notes[i].createdAt)

\* C11: updatedAt never decreases: in every step (a store operation on any
\* note, a debounced save of another note firing later), a note id that is in
\* the collection before and after the step has an updatedAt after the step
\* that is equal to or later than its updatedAt before.  Collections in which
\* two notes share an id are left aside.
C11_UpdatedAtMonotone ==
    [][(Distinct(notes) /\ Distinct(notes')) =>
        \A i \in 1..Len(notes) : \A j \in 1..Len(notes') :
            notes[i].id = notes'[j].id =>
                \/ notes'[j].updatedAt = notes[i].updatedAt
                \/ DateGE(notes'[j].updatedAt, notes[i].updatedAt)]_vars

\* The load effect runs in this step.
InitializeRuns == phase = "boot" /\ phase' # "boot"

\* C12: initialize() seeds if and only if no data is stored.  When the key is
\* absent, the collection becomes exactly one note with the welcome title and
\* language plaintext, and that one-note array is written to storage.  When
\* an array is stored, also an empty one, its notes are adopted (same ids,
\* titles and contents, in the stored order), no note is added and storage is
\* not written.  The welcome note is seeded only when no array is stored.
C12_SeedsIffNothingStored ==
    [][InitializeRuns =>
        /\ storage.kind = "absent" =>
            /\ Len(notes') = 1
            /\ notes'[1].title = WelcomeTitle
            /\ notes'[1].language = "plaintext"
            /\ storage' = Stored(JSONstringify(notes'))
        /\ storage.kind = "array" =>
            /\ Len(notes') = Len(storage.value)
            /\ \A i \in 1..Len(notes') :
                /\ notes'[i].id = storage.value[i].id
                /\ notes'[i].title = storage.value[i].title
                /\ notes'[i].content = storage.value[i].content
            /\ storage' = storage
        /\ lastOp'.kind = "seed" => storage.kind # "array"]_vars

\* C12's case: the page was opened with nothing stored, and the welcome note
\* is the collection and is stored.
C12_Witness ==
    /\ phase = "running"
    /\ lastOp.kind = "seed"
    /\ Len(notes) = 1
    /\ notes[1].title = WelcomeTitle
    /\ storage = Stored(JSONstringify(notes))

\* C13: when the stored value is not valid JSON, or is valid JSON that is no
\* array, initialize() does not fail: no exception leaves it, the page runs
\* and its collection is the seeded welcome note.
C13_MalformedStorageSeeds ==
    [][(InitializeRuns /\ storage.kind \in {"text", "object"}) =>
        /\ phase' = "running"
        /\ error' # "uncaught"
        /\ Len(notes') = 1
        /\ notes'[1].title = WelcomeTitle]_vars

\* C14: create() makes the collection one note longer, puts the new note
\* (default title, empty content, language plaintext) first, keeps every
\* note that was there unchanged, in order, behind it, and returns the note
\* it inserted (the page selects what create returns).  After two creates
\* the second note is first and the first is second.
C14_CreatePrepends ==
    [][StoreStep("create") =>
        /\ Len(notes') = Len(notes) + 1
        /\ notes'[1].id = lastOp'.id
        /\ notes'[1].title = "Untitled Note"
        /\ notes'[1].content = ""
        /\ notes'[1].language = "plaintext"
        /\ \A i \in 1..Len(notes) : notes'[i + 1] = notes[i]
        /\ selectedNote' = notes'[1]]_vars

\* C14's case: create was applied to a collection that held a created
\* note; the later note is first and selected, the earlier one second.
C14_Witness ==
    /\ lastOp.kind = "create"
    /\ Len(notes) = 2
    /\ notes[1].id = lastOp.id
    /\ notes[2].title = "Untitled Note"
    /\ notes[1].updatedAt > notes[2].updatedAt
    /\ selectedNote = notes[1]

\* C15: delete(id) on an id of the collection removes the note with that id
\* and nothing else: afterwards no note of the collection and no stored
\* record has the id, and the notes with another id are all there,
\* unchanged and in the order they had.
C15_DeleteRemovesOnlyThatNote ==
    [][(StoreStep("delete") /\ lastOp'.id \in Ids(notes)) =>
        /\ lastOp'.id \notin Ids(notes')
        /\ storage'.kind = "array"
        /\ \A i \in 1..Len(storage'.value) : storage'.value[i].id # lastOp'.id
        /\ notes' = SelectSeq(notes, LAMBDA n : n.id # lastOp'.id)]_vars

\* C15's case: a note of the collection was deleted and another note is
\* still there.
C15_Witness ==
    /\ lastOp.kind = "delete"
    /\ lastOp.id \notin UnknownIds
    /\ lastOp.id \notin Ids(notes)
    /\ Len(notes) > 0

\* C16: after importMany the collection is the accepted incoming records
\* (those whose id no note of the collection has), in their incoming order,
\* followed by all the notes the collection held, in their order.
C16_ImportPrependsInOrder ==
    [][StoreStep("import") =>
        \E rnd \in [1..Len(reader.file.value) -> RandomInputs] :
            LET incoming == validNotes(reader.file.value, clock, rnd)
                accepted == SelectSeq(incoming, LAMBDA n : n.id \notin Ids(notes))
            IN  /\ Len(notes') = Len(accepted) + Len(notes)
                /\ SubSeq(notes', 1, Len(accepted)) = accepted
                /\ SubSeq(notes', Len(accepted) + 1, Len(notes')) = notes]_vars

\* C17: in every reachable state every note of the collection has one of
\* the 16 language tags: a record loaded or imported with a language that
\* is missing or is none of the 16 has language plaintext.
C17_LanguageIsValid ==
    \A i \in 1..Len(notes) : notes[i].language \in languages

\* The last value of a burst.
Last(values) == values[Len(values)]

C19_NonArrayImportIsNoop ==
    [][(OnloadRuns /\ reader.file \in BadFiles) =>
        /\ notes' = notes
        /\ storage' = storage]_vars

\* C19's case: the reader has delivered a file that is no valid JSON to a
\* page whose collection holds notes, and the user has been told.
C19_Witness ==
    /\ error = "alert"
    /\ lastOp = NoOp
    /\ ~reader.pending
    /\ Len(notes) > 0

\* The store operations that write to storage.
WriteKinds == {"seed", "create", "update", "delete", "import"}

\* C20: a storage write that throws during seed, create, update, delete or
\* import never leaves the operation as an unhandled exception: it is caught
\* and turned into a notification.
C20_WriteFailureIsCaught ==
    (storageFull /\ lastOp.kind \in WriteKinds) => error # "uncaught"

\* An array element is a note record: an object, not null.
WellFormed(element) == element # NullElement

\* C21: in an import whose array mixes note records with elements that are
\* no objects (null, a number), every such element is skipped and every
\* well-formed record with a new id is still added: the collection grows by
\* no more than the well-formed records, and holds each of their ids.
C21_MalformedElementsSkipped ==
    [][(OnloadRuns /\ reader.file \in Files) =>
        LET arr == reader.file.value
            wellFormed == {i \in 1..Len(arr) : WellFormed(arr[i])}
        IN  /\ \A i \in wellFormed :
                    (~Falsy(arr[i].id) /\ arr[i].id \notin Ids(notes)) =>
                        arr[i].id \in Ids(notes')
            /\ Len(notes') <= Len(notes) + Cardinality(wellFormed)]_vars

\* The ids of the stored records; none when no array is stored.
StoredIds == IF storage.kind = "array" THEN Ids(storage.value) ELSE {}

\* C22: a deleted note stays deleted: once delete(id) has been applied, no
\* note with that id is in the collection or in storage in any later state,
\* unless a later import (or a create) has introduced the id; a debounced
\* save scheduled before the delete does not bring the note back.
C22_DeletedStaysDeleted ==
    \A id \in deleted : id \notin Ids(notes) /\ id \notin StoredIds

\* The note id carries, in the collection coll, the last value typed for the
\* field in the burst edits.
Carries(coll, id, field, edits) ==
    \A i \in 1..Len(coll) : coll[i].id = id => coll[i][field] = Last(edits.values)

\* The burst of the field has been saved for the note id: its timer has
\* fired and the note carries its last value.
Saved(id, field, edits, timeoutRef) ==
    /\ edits # NoEdit
    /\ edits.id = id
    /\ ~timeoutRef.pending
    /\ id \in Ids(notes)
    /\ Carries(notes, id, field, edits)

\* C23: a title edit and a content edit of one note, each in its own timer:
\* neither save undoes the other.  When the timer of one field fires for a
\* note that carries the saved value of the other field, the note carries
\* that value afterwards too, in the collection and in storage, so that
\* after both timers the stored note has the new title and the new content.
C23_TitleAndContentBothSaved ==
    [][/\ (ContentFires /\ Saved(contentSaveTimeout.id, "title", typed.title,
                                 titleSaveTimeout)) =>
            /\ Carries(notes', contentSaveTimeout.id, "title", typed.title)
            /\ Carries(storage'.value, contentSaveTimeout.id, "title", typed.title)
       /\ (TitleFires /\ Saved(titleSaveTimeout.id, "content", typed.content,
                               contentSaveTimeout)) =>
            /\ Carries(notes', titleSaveTimeout.id, "content", typed.content)
            /\ Carries(storage'.value, titleSaveTimeout.id, "content", typed.content)
      ]_vars

\* The timer of a field.
TimeoutOf(field) == IF field = "title" THEN titleSaveTimeout ELSE contentSaveTimeout

\* C24: every edit is eventually persisted, also when the user goes to
\* another note and edits the same field there before the first note's
\* timer has fired.  An edit that has not been passed to update is persisted
\* only by its timer; so for every note of the collection, every edit typed
\* into it and not yet passed to update has a pending timer that carries
\* the note's id and the value typed.
C24_EveryEditIsPersisted ==
    \A e \in typed.unsaved :
        e.id \in Ids(notes) =>
            /\ TimeoutOf(e.field).pending
            /\ TimeoutOf(e.field).id = e.id
            /\ TimeoutOf(e.field).updates[e.field] = e.value

\* C25: the save indicator is truthful: whenever saveStatus is 'saved', no
\* debounced title save and no debounced content save is pending.
C25_SavedMeansNothingPending ==
    saveStatus = "saved" => ~titleSaveTimeout.pending /\ ~contentSaveTimeout.pending

\* C26: a debounced save is applied to the note that was being edited when
\* the edit was typed: the timer's update carries the id of that note and
\* the value typed, also when another note is selected by then, and every
\* other note of the result (the selected one too) is taken as it is from
\* the collection the update maps: the pending value is written to no
\* other note.
C26_SaveGoesToTheNoteEdited ==
    [][/\ TitleFires =>
            /\ lastOp' = Op("update", typed.title.id, [title |-> Last(typed.title.values)])
            /\ \A i \in 1..Len(notes') :
                    notes'[i].id # typed.title.id => notes'[i] = titleSaveTimeout.base[i]
       /\ ContentFires =>
            /\ lastOp' = Op("update", typed.content.id,
                            [content |-> Last(typed.content.values)])
            /\ \A i \in 1..Len(notes') :
                    notes'[i].id # typed.content.id => notes'[i] = contentSaveTimeout.base[i]
      ]_vars

\* C26 witness: a title timer has fired while another note was selected; the
\* note edited carries the title typed and the selected note does not.
C26_Witness ==
    /\ lastOp.kind = "update"
    /\ DOMAIN lastOp.updates = {"title"}
    /\ selectedNote # NoNote
    /\ selectedNote.id # lastOp.id
    /\ {selectedNote.id, lastOp.id} \subseteq Ids(notes)
    /\ \A i \in 1..Len(notes) :
            /\ notes[i].id = lastOp.id => notes[i].title = lastOp.updates.title
            /\ notes[i].id = selectedNote.id => notes[i].title # lastOp.updates.title

\* C27: the selection is consistent: after any sequence of select, create,
\* delete and import (no title or content edit has been typed), once
\* rendering has settled, the selected note is null or has the id of a note
\* of the collection, and whenever the collection is not empty some note is
\* selected.
C27_SelectionConsistent ==
    (phase = "running" /\ typed.title = NoEdit /\ typed.content = NoEdit) =>
        /\ selectedNote = NoNote \/ selectedNote.id \in Ids(notes)
        /\ Len(notes) > 0 => selectedNote # NoNote
====
